---------------------------- MODULE Spec2Model ----------------------------
(***************************************************************************)
(* Model of extract_api.py: the URL classifier (clean_url,                 *)
(* is_api_related_link), the spec locator (embedded spec scan,             *)
(* try_common_openapi_endpoints) and the recursive crawl driver            *)
(* (extract_site_content).                                                 *)
(*                                                                         *)
(* Python strings are sequences of one-character strings, so that          *)
(* parsing, lower-casing, substring tests and slicing are computed.        *)
(***************************************************************************)
EXTENDS Integers, Sequences, FiniteSets, TLC

\* ------------------------------------------------------------------------
\* Python str operations
\* ------------------------------------------------------------------------
UpperLetters == <<"A","B","C","D","E","F","G","H","I","J","K","L","M","N","O","P","Q","R","S","T","U","V","W","X","Y","Z">>
LowerLetters == <<"a","b","c","d","e","f","g","h","i","j","k","l","m","n","o","p","q","r","s","t","u","v","w","x","y","z">>
Digits == <<"0","1","2","3","4","5","6","7","8","9">>

Range(s) == { s[i] : i \in 1..Len(s) }

\* F applied to the value of e: e is evaluated once, where LET would
\* evaluate it again at each use
ByValue(e, F(_)) == CHOOSE r \in { F(v) : v \in {e} } : TRUE

\* the lower-case letter of each upper-case ASCII letter
LowerTable ==
  [ c \in Range(UpperLetters) |-> LowerLetters[CHOOSE i \in 1..26 : UpperLetters[i] = c] ]

\* str.lower() on one character (ASCII)
LowerChar(c) == IF c \in DOMAIN LowerTable THEN LowerTable[c] ELSE c

\* str.lower()
Lower(s) == [ i \in 1..Len(s) |-> LowerChar(s[i]) ]

\* s[a-1:b] of Python, as a 1-based inclusive slice that tolerates b < a
Slice(s, a, b) == IF b < a THEN << >> ELSE SubSeq(s, a, b)

\* str.startswith(p)
StartsWith(s, p) == Len(p) <= Len(s) /\ SubSeq(s, 1, Len(p)) = p

\* str.endswith(p)
EndsWith(s, p) ==
  Len(p) <= Len(s) /\ SubSeq(s, Len(s) - Len(p) + 1, Len(s)) = p

\* Python "sub in s"
Contains(s, sub) ==
  \E i \in 1..(Len(s) - Len(sub) + 1) : SubSeq(s, i, i + Len(sub) - 1) = sub

\* s.find(c, start): first 1-based index >= from of a character of cs, 0 if none
FindFrom(s, cs, from) ==
  IF \E i \in from..Len(s) : s[i] \in cs
    THEN CHOOSE i \in from..Len(s) :
           s[i] \in cs /\ \A k \in from..(i - 1) : s[k] \notin cs
    ELSE 0

\* ------------------------------------------------------------------------
\* urllib.parse.urlparse, restricted to URLs without ';', '[' or ']' in the
\* part that is parsed and without control characters
\* ------------------------------------------------------------------------
Letters == Range(UpperLetters) \cup Range(LowerLetters)

scheme_chars == Letters \cup Range(Digits) \cup {"+", "-", "."}

\* urlsplit's scheme: "i = url.find(':')", taken when the text before the
\* colon starts with a letter and holds scheme characters only
SplitScheme(u) ==
  ByValue(FindFrom(u, {":"}, 1),
          LAMBDA i :
            IF /\ i > 1
               /\ u[1] \in Letters
               /\ \A k \in 1..(i - 1) : u[k] \in scheme_chars
              THEN [scheme |-> Lower(Slice(u, 1, i - 1)), rest |-> Slice(u, i + 1, Len(u))]
              ELSE [scheme |-> << >>, rest |-> u])

\* urlsplit's netloc: "if url[:2] == '//'", up to the first of "/?#"
SplitNetloc(r) ==
  IF StartsWith(r, <<"/","/">>)
    THEN ByValue(FindFrom(r, {"/", "?", "#"}, 3),
                 LAMBDA d :
                   IF d = 0 THEN [netloc |-> Slice(r, 3, Len(r)), rest |-> << >>]
                   ELSE [netloc |-> Slice(r, 3, d - 1), rest |-> Slice(r, d, Len(r))])
    ELSE [netloc |-> << >>, rest |-> r]

\* s up to, and without, its first character c: "s.split(c, 1)[0]"
CutAt(s, c) ==
  ByValue(FindFrom(s, {c}, 1),
          LAMBDA h : IF h = 0 THEN s ELSE Slice(s, 1, h - 1))

\* the scheme, netloc and path of urlparse(u): the fragment is cut before
\* the query, as urlsplit does
urlparse(u) ==
  ByValue(SplitScheme(u),
          LAMBDA a :
            ByValue(SplitNetloc(a.rest),
                    LAMBDA b :
                      [scheme |-> a.scheme,
                       netloc |-> b.netloc,
                       path   |-> ByValue(CutAt(b.rest, "#"),
                                          LAMBDA r : CutAt(r, "?"))]))

\* ------------------------------------------------------------------------
\* clean_url
\* ------------------------------------------------------------------------
\* re.sub(r'\[([^\]]+)\]\(([^)]+)\)', r'\2', url): every leftmost
\* non-overlapping "[text](target)" is replaced by its target
RECURSIVE MdSubFrom(_, _)
MdSubFrom(s, i) ==
  IF i > Len(s) THEN << >>
  ELSE
    LET j == FindFrom(s, {"]"}, i + 1)      \* first ']' after the '['
        k == FindFrom(s, {")"}, j + 2)      \* first ')' after the '('
        m == /\ s[i] = "["
             /\ j >= i + 2
             /\ j + 1 <= Len(s) /\ s[j + 1] = "("
             /\ k >= j + 3
    IN  IF m THEN Slice(s, j + 2, k - 1) \o MdSubFrom(s, k + 1)
             ELSE << s[i] >> \o MdSubFrom(s, i + 1)

MdSub(s) == MdSubFrom(s, 1)

\* the length above which a trailing slash is removed (line 65)
MinStripLen == 8

\* "if clean_url.endswith('/') and len(clean_url) > 8: clean_url[:-1]"
StripTrailingSlash(c) ==
  IF EndsWith(c, <<"/">>) /\ Len(c) > MinStripLen
    THEN Slice(c, 1, Len(c) - 1)
    ELSE c

clean_url(url) ==
  ByValue(urlparse(ByValue(url, MdSub)),
          LAMBDA parsed :
            ByValue(parsed.scheme \o <<":","/","/">> \o parsed.netloc \o parsed.path,
                    StripTrailingSlash))

\* ------------------------------------------------------------------------
\* is_api_related_link
\* ------------------------------------------------------------------------
api_keywords ==
  << <<"a","p","i">>,
     <<"e","n","d","p","o","i","n","t">>,
     <<"s","w","a","g","g","e","r">>,
     <<"o","p","e","n","a","p","i">>,
     <<"s","p","e","c">>,
     <<"d","o","c","s">>,
     <<"d","o","c","u","m","e","n","t","a","t","i","o","n">>,
     <<"r","e","f","e","r","e","n","c","e">>,
     <<"g","u","i","d","e">>,
     <<"t","u","t","o","r","i","a","l">>,
     <<"i","n","t","e","g","r","a","t","i","o","n">>,
     <<"d","e","v","e","l","o","p","e","r">>,
     <<"d","e","v">>,
     <<"r","e","s","t">>,
     <<"g","r","a","p","h","q","l">>,
     <<"w","e","b","h","o","o","k">>,
     <<"a","u","t","h">>,
     <<"a","u","t","h","e","n","t","i","c","a","t","i","o","n">>,
     <<"o","a","u","t","h">>,
     <<"s","a","n","d","b","o","x">>,
     <<"p","o","s","t","m","a","n">>,
     <<"c","u","r","l">>,
     <<"j","s","o","n">>,
     <<"x","m","l">>,
     <<"r","e","s","p","o","n","s","e">>,
     <<"r","e","q","u","e","s","t">>,
     <<"p","s","d","2">>,
     <<"a","i","s","p">>,
     <<"p","i","s","p">>,
     <<"c","b","p","i","i">>,
     <<"b","e","r","l","i","n","-","g","r","o","u","p">>,
     <<"s","t","e","t">>,
     <<"o","p","e","n","-","b","a","n","k","i","n","g">> >>

negative_keywords ==
  << <<"l","o","g","i","n">>,
     <<"l","o","g","o","u","t">>,
     <<"r","e","g","i","s","t","e","r">>,
     <<"s","i","g","n","u","p">>,
     <<"s","i","g","n","i","n">>,
     <<"p","r","i","v","a","c","y">>,
     <<"t","e","r","m","s">>,
     <<"c","o","o","k","i","e">>,
     <<"g","d","p","r">>,
     <<"l","e","g","a","l">>,
     <<"c","o","n","t","a","c","t">>,
     <<"a","b","o","u","t">>,
     <<"n","e","w","s">>,
     <<"b","l","o","g">>,
     <<"c","a","r","e","e","r">>,
     <<"j","o","b">>,
     <<"p","r","e","s","s">>,
     <<"m","e","d","i","a">>,
     <<"i","n","v","e","s","t","o","r">>,
     <<"s","u","p","p","o","r","t","-","t","i","c","k","e","t">>,
     <<"f","o","r","u","m">>,
     <<"c","o","m","m","u","n","i","t","y">>,
     <<"s","o","c","i","a","l">>,
     <<"f","a","c","e","b","o","o","k">>,
     <<"t","w","i","t","t","e","r">>,
     <<"l","i","n","k","e","d","i","n">> >>

\* the domain test with its second "not" dropped
DifferentDomainOneWay(url_domain, base_domain) ==
  ~Contains(url_domain, base_domain) /\ Contains(base_domain, url_domain)

\* "if base_domain not in url_domain and url_domain not in base_domain"
DifferentDomain(url_domain, base_domain) ==
  ~Contains(url_domain, base_domain) /\ ~Contains(base_domain, url_domain)

is_api_related_link(url, base_url) ==
  \E base_domain \in {urlparse(base_url).netloc}, url_domain \in {urlparse(url).netloc},
     url_lower \in {Lower(url)} :
       IF DifferentDomain(url_domain, base_domain) THEN FALSE
       ELSE IF \E n \in 1..Len(negative_keywords) :
                  Contains(url_lower, negative_keywords[n]) THEN FALSE
       ELSE \E n \in 1..Len(api_keywords) : Contains(url_lower, api_keywords[n])

\* ------------------------------------------------------------------------
\* Spec locator
\* ------------------------------------------------------------------------
common_paths ==
  << <<"/","o","p","e","n","a","p","i",".","j","s","o","n">>,
     <<"/","o","p","e","n","a","p","i",".","y","a","m","l">>,
     <<"/","o","p","e","n","a","p","i",".","y","m","l">>,
     <<"/","s","w","a","g","g","e","r",".","j","s","o","n">>,
     <<"/","s","w","a","g","g","e","r",".","y","a","m","l">>,
     <<"/","s","w","a","g","g","e","r",".","y","m","l">>,
     <<"/","a","p","i","-","d","o","c","s">>,
     <<"/","a","p","i","-","d","o","c","s",".","j","s","o","n">>,
     <<"/","a","p","i","-","d","o","c","s",".","y","a","m","l">>,
     <<"/","v","1","/","o","p","e","n","a","p","i",".","j","s","o","n">>,
     <<"/","v","2","/","o","p","e","n","a","p","i",".","j","s","o","n">>,
     <<"/","v","3","/","o","p","e","n","a","p","i",".","j","s","o","n">>,
     <<"/","d","o","c","s","/","o","p","e","n","a","p","i",".","j","s","o","n">>,
     <<"/","d","o","c","u","m","e","n","t","a","t","i","o","n","/","o","p","e","n","a","p","i",".","j","s","o","n">> >>

\* urljoin(base_url, ref) for a base "scheme://netloc" and a reference that
\* starts with '/' and has no "." or ".." segment: a "//host/..." reference
\* keeps only the scheme of the base
urljoin(base_url, ref) ==
  IF StartsWith(ref, <<"/","/">>)
    THEN urlparse(base_url).scheme \o <<":">> \o ref
    ELSE base_url \o ref

\* relative ('/...') references are joined, absolute http(s) ones kept, the
\* rest dropped (lines 238-243 and 287-292); the result is a sequence of
\* zero or one URL
Resolve(base_url, ref) ==
  IF StartsWith(ref, <<"/">>) THEN << urljoin(base_url, ref) >>
  ELSE IF StartsWith(ref, <<"h","t","t","p",":","/","/">>) \/ StartsWith(ref, <<"h","t","t","p","s",":","/","/">>) THEN << ref >>
  ELSE << >>

\* "{0.scheme}://{0.netloc}".format(urlparse(url))
BaseUrl(url) == urlparse(url).scheme \o <<":","/","/">> \o urlparse(url).netloc

\* the keyword of each of the four href patterns, in the order of the list
openapi_patterns == << <<"o","p","e","n","a","p","i">>, <<"s","w","a","g","g","e","r">>, <<"s","p","e","c">>, <<"a","p","i">> >>

SpecExtensions == { <<".","j","s","o","n">>, <<".","y","a","m","l">>, <<".","y","m","l">> }

\* one href value against r'([^"\']*KW[^"\']*\.(?:json|yaml|yml))' with
\* re.IGNORECASE: the keyword occurs before the final extension
MatchesPattern(href, kw) ==
  \E ext \in SpecExtensions, lower \in {Lower(href)} :
     /\ EndsWith(lower, ext)
     /\ Contains(Slice(lower, 1, Len(lower) - Len(ext)), kw)

RECURSIVE FlatMap(_, _, _)
\* for each element of s that is kept, in order, its resolved URL
FlatMap(base_url, s, keep) ==
  IF s = << >> THEN << >>
  ELSE (IF keep[1] THEN Resolve(base_url, Head(s)) ELSE << >>)
         \o FlatMap(base_url, Tail(s), Tail(keep))

\* the html scan (lines 225-244); the html is given by the sequence of its
\* quoted href values in document order
FindEmbeddedSpecs(hrefs, base_url) ==
  LET ForPattern(p) ==
        FlatMap(base_url, hrefs,
                [ n \in 1..Len(hrefs) |-> MatchesPattern(hrefs[n], openapi_patterns[p]) ])
  IN  ForPattern(1) \o ForPattern(2) \o ForPattern(3) \o ForPattern(4)

\* number of embedded candidates that are fetched: openapi_urls[:3]
MaxSpecFetch == 3

\* number of children explored per page: [...][:3]
MaxChildren == 3

\* s[:n]
Take(s, n) == Slice(s, 1, IF Len(s) < n THEN Len(s) ELSE n)

\* try_common_openapi_endpoints: the URLs probed, in order, given the
\* outcome of each probe ("ok", "none" or "raise"); a failing probe is
\* caught and the loop continues
ProbedUrls(base_url, outcome) ==
  [ n \in 1..Len(common_paths) |-> base_url \o common_paths[n] ]

RECURSIVE try_common_openapi_endpoints(_, _, _)
\* the specs returned: the probed URLs whose probe returned content
try_common_openapi_endpoints(base_url, outcome, n) ==
  IF n > Len(common_paths) THEN << >>
  ELSE (IF outcome[n] = "ok" THEN << [url |-> base_url \o common_paths[n]] >>
                             ELSE << >>)
         \o try_common_openapi_endpoints(base_url, outcome, n + 1)

\* ------------------------------------------------------------------------
\* Link expansion
\* ------------------------------------------------------------------------
RECURSIVE FilterLinks(_, _)
\* lines 283-299: resolve, clean and filter each link, in list order
FilterLinks(links, base_url) ==
  IF links = << >> THEN << >>
  ELSE ByValue(Resolve(base_url, Head(links)),
               LAMBDA r :
                 IF r = << >> THEN << >>
                 ELSE ByValue(clean_url(r[1]),
                              LAMBDA full_url :
                                IF is_api_related_link(full_url, base_url)
                                  THEN << full_url >> ELSE << >>))
         \o FilterLinks(Tail(links), base_url)

\* list(set(xs)): the distinct elements in an order the language does not
\* fix; every order is possible
ListOfSet(xs) ==
  LET S == Range(xs)
  IN  { p \in [1..Cardinality(S) -> S] : \A x \in S : \E n \in DOMAIN p : p[n] = x }

RECURSIVE Without(_, _)
\* [link for link in xs if link != url]
Without(xs, url) ==
  IF xs = << >> THEN << >>
  ELSE (IF Head(xs) # url THEN << Head(xs) >> ELSE << >>) \o Without(Tail(xs), url)

\* line 307 without its [:3]
RelevantLinksNoCap(api_related_links, url) == Without(api_related_links, url)

\* line 307
RelevantLinks(api_related_links, url) ==
  Take(Without(api_related_links, url), MaxChildren)

\* ------------------------------------------------------------------------
\* Failure handling
\* ------------------------------------------------------------------------
\* url.lower().endswith('.pdf')
IsPdf(url) == EndsWith(Lower(url), <<".","p","d","f">>)

\* line 325 without the lower-casing of the message
ShouldRetryCaseSensitive(url, err) ==
  IsPdf(url) /\ (Contains(err, <<"t","i","m","e","o","u","t">>) \/ Contains(err, <<"i","n","t","e","r","n","a","l"," ","s","e","r","v","e","r"," ","e","r","r","o","r">>))

\* line 325
ShouldRetry(url, err) ==
  IsPdf(url) /\ \E lower \in {Lower(err)} :
                  Contains(lower, <<"t","i","m","e","o","u","t">>) \/ Contains(lower, <<"i","n","t","e","r","n","a","l"," ","s","e","r","v","e","r"," ","e","r","r","o","r">>)

MsgNoKey == <<"F","I","R","E","C","R","A","W","L","_","A","P","I","_","K","E","Y"," ","n","o","t"," ","f","o","u","n","d"," ","i","n"," ","e","n","v","i","r","o","n","m","e","n","t"," ","v","a","r","i","a","b","l","e","s",".">>
MsgNoResponse == <<"N","o"," ","r","e","s","p","o","n","s","e"," ","r","e","c","e","i","v","e","d"," ","f","r","o","m"," ","F","i","r","e","c","r","a","w","l">>

\* ------------------------------------------------------------------------
\* Bounds and inputs of the crawl
\* ------------------------------------------------------------------------
\* largest max_depth explored
MaxDepth == 2

\* largest number of page fetches of one traversal whose first attempt
\* fails (raises, or returns nothing)
MaxFaults == 1

UrlA == <<"h","t","t","p","s",":","/","/","x",".","c","o","m","/","d","o","c","s">>
UrlB == <<"h","t","t","p","s",":","/","/","x",".","c","o","m","/","d","o","c","s","/","b">>
UrlC == <<"h","t","t","p","s",":","/","/","x",".","c","o","m","/","d","o","c","s","/","c">>
UrlPdf == <<"h","t","t","p","s",":","/","/","x",".","c","o","m","/","d","o","c","s","/","m",".","P","D","F">>

\* a page without links and without hrefs
LeafPage == [links |-> << >>, hrefs |-> << >>]

\* A: five distinct relevant links (one of them twice, one a PDF) and links
\* that the filter drops; one embedded spec href.
\* B links back to A and to C, which A links to as well.
WebWide ==
  [ u \in {UrlA, UrlB} |->
      IF u = UrlA
        THEN [links |-> << <<"/","d","o","c","s","/","b">>, <<"/","d","o","c","s","/","c","/">>, <<"/","d","o","c","s","/","b","#","t","o","p">>,
                           <<"h","t","t","p","s",":","/","/","x",".","c","o","m","/","a","p","i","/","d","?","x","=","1">>, <<"/","d","o","c","s","/","m",".","P","D","F">>, <<"/","d","o","c","s","/","e">>,
                           <<"/","b","l","o","g","/","a","p","i">>, <<"h","t","t","p","s",":","/","/","y",".","c","o","m","/","a","p","i">>, <<"m","a","i","l","t","o",":","a","@","x",".","c","o","m">> >>,
              hrefs |-> << <<"/","d","o","c","s","/","s","t","y","l","e",".","c","s","s">>, <<"/","d","o","c","s","/","s","p","e","c",".","y","m","l">> >>]
        ELSE [links |-> << <<"/","d","o","c","s">>, <<"/","d","o","c","s","/","c">> >>, hrefs |-> << >>] ]

\* a chain A -> B -> C -> E with a cycle B -> A; A has no embedded spec
\* href, B has more than three candidates and links to a PDF, C links to
\* itself, and the scraper's answer for the PDF carries links and hrefs
WebDeep ==
  [ u \in {UrlA, UrlB, UrlC, UrlPdf} |->
      IF u = UrlA THEN [links |-> << <<"/","d","o","c","s","/","b">> >>, hrefs |-> << >>]
      ELSE IF u = UrlB
        THEN [links |-> << <<"h","t","t","p","s",":","/","/","x",".","c","o","m","/","d","o","c","s">>, <<"/","d","o","c","s","/","c">>, <<"/","d","o","c","s","/","m",".","P","D","F">> >>,
              hrefs |-> << <<"/","v","2","/","o","p","e","n","a","p","i",".","j","s","o","n">>, <<"h","t","t","p","s",":","/","/","x",".","c","o","m","/","A","P","I","/","s","w","a","g","g","e","r",".","Y","A","M","L">>,
                           <<"s","p","e","c",".","y","m","l">>, <<"/","d","o","c","s","/","s","t","y","l","e",".","c","s","s">> >>]
      ELSE IF u = UrlC
        THEN [links |-> << <<"/","d","o","c","s","/","c","/">>, <<"/","d","o","c","s","/","e">> >>, hrefs |-> << >>]
        ELSE [links |-> << <<"/","d","o","c","s","/","b">>, <<"/","d","o","c","s","/","e">> >>, hrefs |-> << <<"/","a","p","i","/","s","p","e","c",".","j","s","o","n">> >>] ]

Webs == << WebWide, WebDeep >>

RootUrls == { UrlA, UrlPdf }

\* what the scraper returns for a page of web w
PageOf(w, u) == IF u \in DOMAIN Webs[w] THEN Webs[w][u] ELSE LeafPage

\* messages of the exceptions the scraper raises
Messages == { <<"R","e","q","u","e","s","t"," ","T","i","m","e","o","u","t">>, <<"5","0","0"," ","I","n","t","e","r","n","a","l"," ","S","e","r","v","e","r"," ","E","r","r","o","r">> }

\* every url a traversal of web w can meet: the roots, the pages of the web
\* and the links that pass the filter
UrlsOf(w) ==
  RootUrls \cup DOMAIN Webs[w] \cup
  UNION { UNION { Range(FilterLinks(Webs[w][u].links, base_url)) : base_url \in {BaseUrl(u)} } :
            u \in DOMAIN Webs[w] }

\* what extract_site_content computes from a url and from the scraper's
\* answer for it: is_pdf (line 181), base_url (line 205), openapi_urls
\* (lines 225-244), the filtered links (lines 283-299) and the failure
\* messages the handler retries on (line 325)
Analyse(w, u) ==
  ByValue(BaseUrl(u),
          LAMBDA base_url :
            [ web |-> w, url |-> u,
              is_pdf |-> IsPdf(u),
              base_url |-> base_url,
              openapi_urls |-> FindEmbeddedSpecs(PageOf(w, u).hrefs, base_url),
              api_related |-> FilterLinks(PageOf(w, u).links, base_url),
              retry_on |-> { msg \in Messages \cup {MsgNoKey, MsgNoResponse} :
                               ShouldRetry(u, msg) } ])

\* the same, for every web and url of the model
Analysed == UNION { { Analyse(w, u) : u \in UrlsOf(w) } : w \in 1..Len(Webs) }

\* outcomes of the 14 probes of one call of try_common_openapi_endpoints
ProbeOutcomes ==
  { [ n \in 1..Len(common_paths) |-> "raise" ],
    [ n \in 1..Len(common_paths) |-> IF n = 1 THEN "raise" ELSE "ok" ],
    [ n \in 1..Len(common_paths) |-> IF n = 4 THEN "ok" ELSE "none" ] }

\* ------------------------------------------------------------------------
\* State
\* ------------------------------------------------------------------------
VARIABLES
  max_depth,     \* the max_depth argument of the top-level call
  api_key,       \* whether FIRECRAWL_API_KEY is set
  web,           \* index in Webs of the site the scraper sees
  stack,         \* the active calls of extract_site_content, innermost last
  visited_urls,  \* the shared visited_urls set
  log,           \* the scraper calls made so far, in order
  targets,       \* the calls that passed the skip check, in order
  skipped,       \* the calls that the skip check returned {} for
  slept,         \* seconds slept since the last scraper call
  faults,        \* failed first attempts of page fetches so far
  status,        \* "running", or "done" once the top-level call returned
  final,         \* the value the top-level call returned: << >> for {},
                 \* << r >> for a PageResult r
  cleanSt,       \* the clean_url experiment
  relSt          \* the is_api_related_link experiment

vars == << max_depth, api_key, web, stack, visited_urls, log, targets, skipped,
           slept, faults,
           status, final, cleanSt, relSt >>

\* a call of extract_site_content(url, depth, max_depth, visited_urls) at
\* its first statement
NewFrame(url, depth) ==
  [ url |-> url, depth |-> depth, pc |-> "entry",
    results |-> << >>,            \* << r >> once the results dict exists
    has_links |-> FALSE,          \* scraped_data.links is not empty
    openapi_urls |-> << >>, k |-> 1,
    relevant_links |-> << >>, i |-> 1,
    err |-> << >> ]

Top == stack[Len(stack)]

\* the computations on url in the web of this traversal
Of(url) == CHOOSE a \in Analysed : a.web = web /\ a.url = url

\* the wait before a page fetch at depth > 0 (line 171)
wait_time == 31

\* time.sleep(2) before an embedded spec fetch (line 252)
SpecDelay == 2

\* time.sleep(5) before the PDF retry (line 328)
RetryDelay == 5

\* a loop that moves on only after a child that returned a result
NextIndexIfContent(i, child_content) == IF child_content # << >> THEN i + 1 ELSE i

\* the for loop of line 312 moves to the next relevant link, whatever the
\* child returned
NextIndex(i, child_content) == i + 1

\* line 156 without the visited_urls test
SkipCheckDepthOnly(url, depth) == depth > max_depth

\* line 156
SkipCheck(url, depth) == depth > max_depth \/ url \in visited_urls

\* a recursive call that passes its own depth on
ChildDepthSame(depth) == depth

\* the depth argument of the recursive call (line 314)
ChildDepth(depth) == depth + 1

\* the record of one scraper call
Call(kind, url, f, outcome) ==
  [ kind |-> kind, url |-> url, node |-> f.url, depth |-> f.depth,
    slept |-> slept, outcome |-> outcome ]

\* the stack after the innermost call returned value v: the caller (line
\* 314-317) appends a non-empty result to child_pages and goes on with its
\* loop
AfterReturn(v) ==
  IF Len(stack) = 1 THEN << >>
  ELSE LET p == stack[Len(stack) - 1]
           r == p.results[1]
           r2 == IF v # << >>
                   THEN [r EXCEPT !.child_pages = Append(@, v[1])]
                   ELSE r
       IN  Append(SubSeq(stack, 1, Len(stack) - 2),
                  [p EXCEPT !.results = << r2 >>, !.i = NextIndex(@, v), !.pc = "explore"])

\* "return v" of the innermost call
Return(v) ==
  /\ stack' = AfterReturn(v)
  /\ IF Len(stack) = 1
       THEN status' = "done" /\ final' = v
       ELSE UNCHANGED << status, final >>

ReplaceTop(f) == stack' = Append(SubSeq(stack, 1, Len(stack) - 1), f)

PureIdle == UNCHANGED << cleanSt, relSt >>

\* ------------------------------------------------------------------------
\* extract_site_content, one action per step between scraper calls
\* ------------------------------------------------------------------------
Running == status = "running" /\ stack # << >>

\* lines 153-167: the skip check, marking the url visited, the API key
Enter ==
  /\ Running /\ Top.pc = "entry"
  /\ IF SkipCheck(Top.url, Top.depth)
       THEN /\ Return(<< >>)
            /\ skipped' = skipped \cup {[url |-> Top.url, depth |-> Top.depth]}
            /\ UNCHANGED << visited_urls, targets >>
       ELSE /\ visited_urls' = visited_urls \cup {Top.url}
            /\ targets' = Append(targets, [url |-> Top.url, depth |-> Top.depth])
            /\ UNCHANGED skipped
            /\ IF ~api_key
                 THEN ReplaceTop([Top EXCEPT !.pc = "except", !.err = MsgNoKey])
                 ELSE ReplaceTop([Top EXCEPT !.pc = IF Top.depth > 0 THEN "wait" ELSE "fetch"])
            /\ UNCHANGED << status, final >>
  /\ UNCHANGED << max_depth, api_key, web, log, slept, faults >>
  /\ PureIdle

\* no early return for a PDF
IsLeafNodeNever(url) == FALSE

\* lines 219-222: a PDF returns right after its results dict is built
IsLeafNode(url) == Of(url).is_pdf

\* lines 170-176: the countdown before a page fetch at depth > 0
RateLimitWait ==
  /\ Running /\ Top.pc = "wait"
  /\ slept' = slept + wait_time
  /\ ReplaceTop([Top EXCEPT !.pc = "fetch"])
  /\ UNCHANGED << max_depth, api_key, web, visited_urls, log, faults, status, final >>
  /\ UNCHANGED << targets, skipped >>
  /\ PureIdle

\* the formats kept in 'content' by the first fetch (lines 211-213)
ContentOf(url) ==
  IF Of(url).is_pdf THEN {"markdown", "html"} ELSE {"markdown", "html", "screenshot"}

\* lines 208-217
NewResults(url) ==
  [ url |-> url, content |-> ContentOf(url), links |-> << >>,
    child_pages |-> << >>, openapi_specs |-> << >> ]

\* line 306, first conjunct
CanRecurse(depth) == depth < max_depth

\* the fallback without the "depth == 0" test
AfterScanAnyDepth(openapi_urls, depth) ==
  IF openapi_urls # << >> THEN "specs"
  ELSE "probe"

\* where a non-PDF node goes after the html scan (lines 247 and 274)
AfterScan(openapi_urls, depth) ==
  IF openapi_urls # << >> THEN "specs"
  ELSE IF depth = 0 THEN "probe"
  ELSE "links"

\* lines 181-244, the scraper answers: a PDF returns its results at once,
\* any other page is scanned for embedded spec hrefs
MainFetchOk ==
  /\ Running /\ Top.pc = "fetch"
  /\ LET f == Top
         specs == Of(f.url).openapi_urls
     IN  /\ log' = Append(log, Call("main", f.url, f, << >>))
         /\ IF IsLeafNode(f.url)
              THEN Return(<< NewResults(f.url) >>)
              ELSE /\ ReplaceTop([f EXCEPT !.results = << NewResults(f.url) >>,
                                           !.has_links = PageOf(web, f.url).links # << >>,
                                           !.openapi_urls = specs,
                                           !.pc = AfterScan(specs, f.depth)])
                   /\ UNCHANGED << status, final >>
  /\ slept' = 0
  /\ UNCHANGED << max_depth, api_key, web, visited_urls, faults >>
  /\ UNCHANGED << targets, skipped >>
  /\ PureIdle

\* lines 186-202, the scraper raises or returns nothing
MainFetchFail ==
  /\ Running /\ Top.pc = "fetch"
  /\ faults < MaxFaults
  /\ \E msg \in Messages \cup {MsgNoResponse} :
       /\ log' = Append(log, Call("main", Top.url, Top, msg))
       /\ ReplaceTop([Top EXCEPT !.pc = "except", !.err = msg])
  /\ slept' = 0
  /\ faults' = faults + 1
  /\ UNCHANGED << max_depth, api_key, web, visited_urls, status, final >>
  /\ UNCHANGED << targets, skipped >>
  /\ PureIdle

\* lines 321-325 and 351: the handler retries or returns {}
HandleError ==
  /\ Running /\ Top.pc = "except"
  /\ IF Top.err \in Of(Top.url).retry_on
       THEN /\ ReplaceTop([Top EXCEPT !.pc = "retry"])
            /\ UNCHANGED << status, final >>
       ELSE Return(<< >>)
  /\ UNCHANGED << max_depth, api_key, web, visited_urls, log, slept, faults >>
  /\ UNCHANGED << targets, skipped >>
  /\ PureIdle

\* lines 338-347
RetryResults(url) ==
  [ url |-> url, content |-> {"markdown"}, links |-> << >>,
    child_pages |-> << >>, openapi_specs |-> << >> ]

\* lines 327-351: the second attempt for a PDF
Retry ==
  /\ Running /\ Top.pc = "retry"
  /\ \E outcome \in {"ok", "none", "raise"} :
       /\ log' = Append(log, [Call("retry", Top.url, Top, << >>)
                                EXCEPT !.slept = slept + RetryDelay,
                                       !.outcome = IF outcome = "ok" THEN << >> ELSE <<"f","a","i","l","e","d">>])
       /\ Return(IF outcome = "ok" THEN << RetryResults(Top.url) >> ELSE << >>)
  /\ slept' = 0
  /\ UNCHANGED << max_depth, api_key, web, visited_urls, faults >>
  /\ UNCHANGED << targets, skipped >>
  /\ PureIdle

\* lines 249-271: one embedded candidate of openapi_urls[:3]
SpecFetch ==
  /\ Running /\ Top.pc = "specs"
  /\ LET f == Top
         cands == Take(f.openapi_urls, MaxSpecFetch)
         u == cands[f.k]
     IN  \E outcome \in {"ok"} \cup (IF faults < MaxFaults THEN {"none", "raise"} ELSE {}) :
           /\ log' = Append(log, [Call("spec", u, f, << >>)
                                    EXCEPT !.slept = slept + SpecDelay,
                                           !.outcome = IF outcome = "ok" THEN << >> ELSE <<"f","a","i","l","e","d">>])
           /\ ReplaceTop([f EXCEPT
                !.results = IF outcome = "ok"
                              THEN << [f.results[1] EXCEPT !.openapi_specs = Append(@, [url |-> u])] >>
                              ELSE @,
                !.k = f.k + 1,
                !.pc = IF f.k + 1 > Len(cands) THEN "links" ELSE "specs"])
  /\ slept' = 0
  /\ UNCHANGED << max_depth, api_key, web, visited_urls, faults, status, final >>
  /\ UNCHANGED << targets, skipped >>
  /\ PureIdle

RECURSIVE ProbeCalls(_, _, _, _)
\* the scraper calls of try_common_openapi_endpoints (lines 121-129): no
\* sleep precedes any of them
ProbeCalls(f, urls, outcome, n) ==
  IF n > Len(urls) THEN << >>
  ELSE << [ kind |-> "probe", url |-> urls[n], node |-> f.url, depth |-> f.depth,
            slept |-> IF n = 1 THEN slept ELSE 0,
            outcome |-> IF outcome[n] = "ok" THEN << >> ELSE <<"f","a","i","l","e","d">> ] >>
         \o ProbeCalls(f, urls, outcome, n + 1)

\* lines 274-278: the fallback to the common paths
ProbeCommon ==
  /\ Running /\ Top.pc = "probe"
  /\ \E outcome \in ProbeOutcomes :
       LET f == Top
           base_url == Of(f.url).base_url
           common_specs == try_common_openapi_endpoints(base_url, outcome, 1)
       IN  /\ log' = log \o ProbeCalls(f, ProbedUrls(base_url, outcome), outcome, 1)
           /\ ReplaceTop([f EXCEPT
                !.results = << [f.results[1] EXCEPT !.openapi_specs = @ \o common_specs] >>,
                !.pc = "links"])
  /\ slept' = 0
  /\ UNCHANGED << max_depth, api_key, web, visited_urls, faults, status, final >>
  /\ UNCHANGED << targets, skipped >>
  /\ PureIdle

\* lines 281-310: the relevant links, deduplicated through a set, and the
\* children to explore
ProcessLinks ==
  /\ Running /\ Top.pc = "links"
  /\ LET f == Top
     IN  IF ~f.has_links
           THEN ReplaceTop([f EXCEPT !.pc = "explore"])
           ELSE \E api_related_links \in ListOfSet(Of(f.url).api_related) :
                  ReplaceTop([f EXCEPT
                    !.results = << [f.results[1] EXCEPT !.links = api_related_links] >>,
                    !.relevant_links =
                       IF CanRecurse(f.depth)
                         THEN RelevantLinks(api_related_links, f.url)
                         ELSE << >>,
                    !.i = 1,
                    !.pc = "explore"])
  /\ UNCHANGED << max_depth, api_key, web, visited_urls, log, slept, faults, status, final >>
  /\ UNCHANGED << targets, skipped >>
  /\ PureIdle

\* lines 312-314: the recursive call for the next relevant link
ExploreChild ==
  /\ Running /\ Top.pc = "explore"
  /\ Top.i <= Len(Top.relevant_links)
  /\ stack' = Append(Append(SubSeq(stack, 1, Len(stack) - 1), [Top EXCEPT !.pc = "await"]),
                     NewFrame(Top.relevant_links[Top.i], ChildDepth(Top.depth)))
  /\ UNCHANGED << max_depth, api_key, web, visited_urls, log, slept, faults, status, final >>
  /\ UNCHANGED << targets, skipped >>
  /\ PureIdle

\* line 319
ReturnResults ==
  /\ Running /\ Top.pc = "explore"
  /\ Top.i > Len(Top.relevant_links)
  /\ Return(Top.results)
  /\ UNCHANGED << max_depth, api_key, web, visited_urls, log, slept, faults >>
  /\ UNCHANGED << targets, skipped >>
  /\ PureIdle

PureInit ==
  /\ cleanSt = [step |-> "off"]
  /\ relSt = [step |-> "off"]

\* extract_site_content(url, max_depth=max_depth) as main calls it (line 433)
Init ==
  /\ max_depth \in 0..MaxDepth
  /\ api_key \in BOOLEAN
  /\ web \in 1..Len(Webs)
  /\ \E root \in RootUrls : stack = << NewFrame(root, 0) >>
  /\ visited_urls = {}
  /\ log = << >>
  /\ targets = << >>
  /\ skipped = {}
  /\ slept = 0
  /\ faults = 0
  /\ status = "running"
  /\ final = << >>
  /\ PureInit

Next ==
  \/ Enter
  \/ RateLimitWait
  \/ MainFetchOk
  \/ MainFetchFail
  \/ HandleError
  \/ Retry
  \/ SpecFetch
  \/ ProbeCommon
  \/ ProcessLinks
  \/ ExploreChild
  \/ ReturnResults

Spec == Init /\ [][Next]_vars

\* the traversal is sequential code: whenever a step is possible it is taken
FairSpec == Spec /\ WF_vars(Next)

\* ------------------------------------------------------------------------
\* clean_url applied once and twice to bounded inputs: absolute URLs with
\* a scheme and a host, and text with markdown links to such URLs
\* ------------------------------------------------------------------------
\* largest number of slashes appended to the path of an input URL
MaxSlashes == 2

Slashes(k) == [ n \in 1..k |-> "/" ]

CleanSchemes == { <<"h","t","t","p","s",":">>, <<"H","T","T","P",":">>, <<"h",":">> }
CleanAuthorities == { <<"/","/","x",".","c","o","m">>, <<"/","/","a">> }
CleanPaths == { <<>>, <<"/","d","o","c","s">>, <<"/","a","/","/","b">> }
CleanTails == { <<>>, <<"?","q","=","1">>, <<"#","t","o","p">>, <<"?","n","e","x","t","=","/">> }

MarkdownInputs ==
  { <<"[","d","o","c","s","]","(","h","t","t","p","s",":","/","/","x",".","c","o","m","/","d","o","c","s","/",")">>, <<"[","a","]","(","h","t","t","p","s",":","/","/","x",".","c","o","m","/","a","/","/",")"," ","[","b","]","(","/","b",")">>,
    <<"h","t","t","p","s",":","/","/","x",".","c","o","m","/","[","t","]","(","x",")","/">>, <<"h","t","t","p","s",":","/","/","x",".","c","o","m","/","[","t","]","(",")","/">>, <<"h","t","t","p","s",":","/","/","x",".","c","o","m","/","[","[","a","]","]","(","b",")">>,
    <<"h","t","t","p","s",":","/","/","x",".","c","o","m","/","[","a","]","(","b">> }

CleanInputs ==
  { s \o a \o p \o Slashes(k) \o t :
      s \in CleanSchemes, a \in CleanAuthorities, p \in CleanPaths,
      k \in 0..MaxSlashes, t \in CleanTails }
  \cup MarkdownInputs

CrawlOff ==
  /\ max_depth = 0
  /\ api_key = FALSE
  /\ web = 1
  /\ stack = << >>
  /\ visited_urls = {}
  /\ log = << >>
  /\ targets = << >>
  /\ skipped = {}
  /\ slept = 0
  /\ faults = 0
  /\ status = "off"
  /\ final = << >>

CrawlIdle ==
  UNCHANGED << max_depth, api_key, web, stack, visited_urls, log, targets,
               skipped, slept, faults, status, final >>

InitClean ==
  /\ CrawlOff
  /\ \E u \in CleanInputs : cleanSt = [step |-> "in", url |-> u, once |-> << >>, twice |-> << >>]
  /\ relSt = [step |-> "off"]

\* clean_url(U)
CleanOnce ==
  /\ cleanSt.step = "in"
  /\ cleanSt' = [cleanSt EXCEPT !.step = "once", !.once = clean_url(cleanSt.url)]
  /\ UNCHANGED relSt
  /\ CrawlIdle

\* clean_url(clean_url(U))
CleanTwice ==
  /\ cleanSt.step = "once"
  /\ cleanSt' = [cleanSt EXCEPT !.step = "twice", !.twice = clean_url(cleanSt.once)]
  /\ UNCHANGED relSt
  /\ CrawlIdle

NextClean == CleanOnce \/ CleanTwice

SpecClean == InitClean /\ [][NextClean]_vars

\* ------------------------------------------------------------------------
\* is_api_related_link applied to bounded inputs
\* ------------------------------------------------------------------------
RelHosts == { <<"x",".","c","o","m">>, <<"a","p","i",".","x",".","c","o","m">>, <<"n","o","t","x",".","c","o","m">>, <<"y",".","c","o","m">>, <<"X",".","c","o","m">>, <<>> }
RelBaseHosts == { <<"x",".","c","o","m">>, <<"a","p","i",".","x",".","c","o","m">>, <<"y",".","o","r","g">> }
RelPaths == { <<>>, <<"/","d","o","c","s","/","a","p","i">>, <<"/","b","l","o","g","/","a","p","i","-","g","u","i","d","e">>, <<"/","L","O","G","I","N">>, <<"/","A","P","I","/","v","1">>, <<"/","p","a","g","e">>,
              <<"/","d","o","c","s","/","a","p","i","/","r","e","f","e","r","e","n","c","e">> }

InitRel ==
  /\ CrawlOff
  /\ cleanSt = [step |-> "off"]
  /\ \E h \in RelHosts, b \in RelBaseHosts, p \in RelPaths :
       relSt = [step |-> "in", host |-> h, base_host |-> b,
                url |-> <<"h","t","t","p","s",":","/","/">> \o h \o p, base_url |-> <<"h","t","t","p","s",":","/","/">> \o b,
                result |-> FALSE]

\* is_api_related_link(url, base_url)
Classify ==
  /\ relSt.step = "in"
  /\ relSt' = [relSt EXCEPT !.step = "out",
                            !.result = is_api_related_link(relSt.url, relSt.base_url)]
  /\ UNCHANGED cleanSt
  /\ CrawlIdle

NextRel == Classify

SpecRel == InitRel /\ [][NextRel]_vars

\* ------------------------------------------------------------------------
\* Properties
\* ------------------------------------------------------------------------
RECURSIVE NodesAt(_, _)
\* the PageResults of the tree rooted at r, each with its nesting depth
NodesAt(r, d) ==
  { [node |-> r, depth |-> d] }
    \cup UNION { NodesAt(r.child_pages[n], d + 1) : n \in 1..Len(r.child_pages) }

\* the PageResults of the returned tree
ResultNodes == IF final = << >> THEN {} ELSE NodesAt(final[1], 0)

\* the PageResults built so far: the returned tree and the results of the
\* calls still active, the call at stack position k nesting at depth k - 1
AllNodes ==
  ResultNodes \cup
  UNION { IF stack[k].results = << >> THEN {} ELSE NodesAt(stack[k].results[1], k - 1) :
            k \in 1..Len(stack) }

MainFetches == { n \in DOMAIN log : log[n].kind = "main" }

Failed(e) == e.outcome # << >>

\* u ends in ".pdf", in any case
EndsInPdf(u) == Len(u) >= 4 /\ Lower(SubSeq(u, Len(u) - 3, Len(u))) = <<".","p","d","f">>

\* C1: within one top-level call no URL passes the skip check twice and no
\* URL is the target of two main fetches, also when it is linked from
\* several pages or its first fetch failed.
C1_NoUrlTwice ==
  /\ \A m, n \in DOMAIN targets : targets[m].url = targets[n].url => m = n
  /\ \A m, n \in MainFetches : log[m].url = log[n].url => m = n

\* a URL whose fetch failed was linked again from another page and skipped
C1_Witness ==
  /\ status = "done"
  /\ \E s \in skipped : \E n \in MainFetches :
       log[n].url = s.url /\ Failed(log[n]) /\ s.depth # log[n].depth

\* C2: the top-level call eventually returns, for every web (cyclic ones
\* included) and every max_depth >= 0, as long as every step is taken.
C2_Terminates == <>(status = "done")

\* the cycle A -> B -> A was met: B was crawled at depth 1 and its link
\* back to A was skipped at depth 2
C2_Witness ==
  /\ status = "done"
  /\ [url |-> UrlA, depth |-> 2] \in skipped
  /\ \E n \in DOMAIN targets : targets[n] = [url |-> UrlB, depth |-> 1]

\* C3: no page is fetched at a depth above max_depth, every PageResult of
\* the tree nests at depth <= max_depth, and with max_depth = 0 the root
\* has no child pages.
C3_DepthBounded ==
  /\ \A n \in DOMAIN log : log[n].kind \in {"main", "retry"} => log[n].depth <= max_depth
  /\ \A n \in DOMAIN targets : targets[n].depth <= max_depth
  /\ \A x \in AllNodes : x.depth <= max_depth
  /\ (max_depth = 0 /\ final # << >>) => final[1].child_pages = << >>

\* a page at depth max_depth >= 1 has relevant links and no child pages
C3_Witness ==
  /\ status = "done" /\ max_depth >= 1
  /\ \E x \in ResultNodes :
       x.depth = max_depth /\ x.node.links # << >> /\ x.node.child_pages = << >>

RECURSIVE Pow3Sum(_)
\* 3^0 + ... + 3^d
Pow3Sum(d) == IF d = 0 THEN 1 ELSE 1 + 3 * Pow3Sum(d - 1)

\* C4: a page recurses into at most 3 children and has at most 3 child
\* pages; with max_depth = 1 there are at most 1 + 3 main page fetches; the
\* pages visited number at most 3^0 + ... + 3^max_depth.
C4_FanOutCapped ==
  /\ \A k \in DOMAIN stack : Len(stack[k].relevant_links) <= 3
  /\ \A x \in AllNodes : Len(x.node.child_pages) <= 3
  /\ max_depth = 1 => Cardinality(MainFetches) <= 1 + 3
  /\ Len(targets) <= Pow3Sum(max_depth)

\* max_depth = 1, the root has 5 relevant links, 3 child pages, 4 fetches
C4_Witness ==
  /\ status = "done" /\ max_depth = 1 /\ final # << >>
  /\ Len(final[1].links) = 5
  /\ Len(final[1].child_pages) = 3
  /\ Cardinality(MainFetches) = 4

\* C5: a PageResult for a .pdf URL (any case) has no links, no child pages
\* and no openapi_specs, from the first fetch or from the retry; a PDF node
\* issues no spec-candidate fetch, no probe and no recursive call.
C5_PdfIsLeaf ==
  /\ \A x \in AllNodes :
       EndsInPdf(x.node.url) =>
         /\ x.node.links = << >>
         /\ x.node.child_pages = << >>
         /\ x.node.openapi_specs = << >>
  /\ \A n \in DOMAIN log : log[n].kind \in {"spec", "probe"} => ~EndsInPdf(log[n].node)
  /\ \A k \in 1..(Len(stack) - 1) : ~EndsInPdf(stack[k].url)

\* a PDF whose scraped answer carries links and hrefs was returned by the
\* retry
C5_Witness ==
  /\ status = "done"
  /\ \E x \in ResultNodes :
       /\ EndsInPdf(x.node.url)
       /\ x.node.content = {"markdown"}
       /\ PageOf(web, x.node.url).links # << >>
       /\ PageOf(web, x.node.url).hrefs # << >>

\* C6: clean_url(clean_url(U)) = clean_url(U) for every input U.
C6_CleanIdempotent ==
  cleanSt.step = "twice" => cleanSt.twice = cleanSt.once

C8_RateLimited ==
  \A n \in DOMAIN log :
    ~(log[n].kind = "main" /\ log[n].depth = 0) => log[n].slept >= 31

PageFetches(u) == { n \in DOMAIN log : log[n].url = u /\ log[n].kind \in {"main", "retry"} }

\* the retry condition of the claim, on a url and a failure message
RetryCondition(u, msg) ==
  /\ EndsInPdf(u)
  /\ Contains(Lower(msg), <<"t","i","m","e","o","u","t">>) \/ Contains(Lower(msg), <<"i","n","t","e","r","n","a","l"," ","s","e","r","v","e","r"," ","e","r","r","o","r">>)

\* C9: a failed main fetch is followed by one retry exactly when the url is
\* a PDF and the message has "timeout" or "internal server error"; every
\* other failed page is fetched once only; a page whose last fetch failed is
\* in no child_pages.
C9_SingleRetryPolicy ==
  /\ \A n \in DOMAIN log :
       log[n].kind = "retry" =>
         /\ n > 1
         /\ log[n - 1].kind = "main" /\ log[n - 1].url = log[n].url
         /\ Failed(log[n - 1]) /\ RetryCondition(log[n].url, log[n - 1].outcome)
  /\ \A n \in MainFetches :
       (Failed(log[n]) /\ RetryCondition(log[n].url, log[n].outcome)) =>
         IF n = Len(log) THEN status = "running"
         ELSE log[n + 1].kind = "retry" /\ log[n + 1].url = log[n].url
  /\ \A n \in MainFetches :
       Cardinality(PageFetches(log[n].url)) <= 2
  /\ \A n \in MainFetches :
       (Failed(log[n]) /\ ~RetryCondition(log[n].url, log[n].outcome)) =>
         Cardinality(PageFetches(log[n].url)) = 1
  /\ \A x \in AllNodes :
       \E n \in PageFetches(x.node.url) :
          ~Failed(log[n]) /\ \A m \in PageFetches(x.node.url) : m <= n

\* a child PDF timed out, its retry failed, and it is in no child_pages
C9_Witness ==
  /\ status = "done" /\ final # << >>
  /\ \E n \in DOMAIN log :
       /\ log[n].kind = "retry" /\ Failed(log[n]) /\ log[n].depth >= 1
       /\ \A x \in ResultNodes : x.node.url # log[n].url

RECURSIVE FirstOccurrences(_, _)
\* xs without repetitions, each element at its first occurrence
FirstOccurrences(xs, seen) ==
  IF xs = << >> THEN << >>
  ELSE IF Head(xs) \in seen THEN FirstOccurrences(Tail(xs), seen)
  ELSE << Head(xs) >> \o FirstOccurrences(Tail(xs), seen \cup {Head(xs)})

\* C10: the children explored are the first 3 distinct relevant links other
\* than the current url, in the order in which they passed the filter.
C10_FilterOrder ==
  \A k \in DOMAIN stack :
    LET f == stack[k]
    IN  (f.pc \in {"explore", "await"} /\ f.has_links /\ f.depth < max_depth) =>
          f.relevant_links =
            Take(Without(FirstOccurrences(
                   FilterLinks(PageOf(web, f.url).links, BaseUrl(f.url)), {}), f.url), 3)

\* the log entry c is a probe made for the page node
ProbeOf(c, node) == c.kind = "probe" /\ c.node = node /\ c.depth = 0

\* the first probe of a call of try_common_openapi_endpoints is log[s]
ProbesStartAt(s) ==
  log[s].kind = "probe" /\ (s = 1 \/ log[s - 1].kind # "probe")

\* C11: try_common_openapi_endpoints runs only for a successfully fetched
\* page that is not a PDF, at depth 0, whose html scan gave no embedded spec
\* URL: never at depth > 0, and never for a page with an embedded candidate,
\* whether or not the candidates could be fetched.  When it runs, all 14
\* common paths are probed in order, whatever the outcome of each probe.
C11_ProbeOnlyBareRoot ==
  /\ \A j \in DOMAIN log :
       (log[j].kind = "probe" /\ ~ProbesStartAt(j)) => ProbeOf(log[j], log[j - 1].node)
  /\ \A s \in DOMAIN log :
       ProbesStartAt(s) =>
         \E node \in {log[s].node} :
           /\ ~EndsInPdf(node)
           /\ \E base_url \in {BaseUrl(node)} :
                /\ FindEmbeddedSpecs(PageOf(web, node).hrefs, base_url) = << >>
                /\ Len(log) >= s + Len(common_paths) - 1
                /\ \A n \in 1..Len(common_paths) :
                     /\ ProbeOf(log[s + n - 1], node)
                     /\ log[s + n - 1].url = base_url \o common_paths[n]
                /\ Len(log) >= s + Len(common_paths) =>
                     log[s + Len(common_paths)].kind # "probe"
           /\ \E i \in 1..(s - 1) :
                log[i].kind = "main" /\ log[i].url = node /\ ~Failed(log[i])
           /\ \A i \in DOMAIN log :
                log[i].node = node => log[i].kind \in {"main", "probe"}

\* the crawl is over, the first probe of the root failed and the second
\* found a spec that is in the root's openapi_specs
C11_Witness ==
  /\ status = "done" /\ final # << >>
  /\ \E j \in DOMAIN log :
       /\ ProbesStartAt(j) /\ Failed(log[j])
       /\ ProbeOf(log[j + 1], final[1].url) /\ ~Failed(log[j + 1])
       /\ \E n \in DOMAIN final[1].openapi_specs :
            final[1].openapi_specs[n].url = log[j + 1].url
=============================================================================
